---- MODULE Spec2Model ----
(***************************************************************************)
(* Model of plugins/mnCollisionDeformer.py: one evaluation of              *)
(* mnCollisionDeformer.deform (contact pass, full-enclosure restore,       *)
(* recursive bulge propagation in deformNeighbours, getIntersection).      *)
(*                                                                         *)
(* Geometry is modelled on one axis per vertex (the line through the       *)
(* vertex along its normal): a point or vector is an exact rational        *)
(* <<numerator, denominator>>, the local-to-world matrix is a scale and a  *)
(* translation, and the collider is, per vertex, the set of world          *)
(* coordinates at which its surface crosses that line.                     *)
(***************************************************************************)
EXTENDS Integers, Sequences, FiniteSets, TLC

\* ------------------------------------------------------------------ bounds
MaxVerts == 3
MaxLevels == 2
MaxScale == 2
MaxDepth == 2
MaxBulge == 1
EnvSteps == 2
ChainLen == 5

\* Python's None
None == <<>>

\* ------------------------------------------------------ exact arithmetic
Abs(x) == IF x < 0 THEN -x ELSE x

RECURSIVE Gcd(_, _)
Gcd(a, b) == IF b = 0 THEN a ELSE Gcd(b, a % b)

\* the number n/d (d # 0), in lowest terms with a positive denominator
Rat(n, d) ==
    LET g == Gcd(Abs(n), Abs(d))
        s == IF d < 0 THEN -1 ELSE 1
    IN  <<(s * n) \div g, (s * d) \div g>>

Int2R(i) == <<i, 1>>
Zero == Int2R(0)
RAdd(a, b) == Rat(a[1] * b[2] + b[1] * a[2], a[2] * b[2])
RNeg(a) == <<-a[1], a[2]>>
RSub(a, b) == RAdd(a, RNeg(b))
RMul(a, b) == Rat(a[1] * b[1], a[2] * b[2])
RDiv(a, b) == Rat(a[1] * b[2], a[2] * b[1])
RLt(a, b) == a[1] * b[2] < b[1] * a[2]
RLe(a, b) == a[1] * b[2] <= b[1] * a[2]
\* MVector.length() on one axis
Length(a) == <<Abs(a[1]), a[2]>>

\* ------------------------------------------------------------- transform
\* MPoint * MMatrix: scale and translate
PointTimesMatrix(p, m) == RAdd(RMul(p, m.s), m.t)
\* MVector * MMatrix: the translation does not apply to a vector
VectorTimesMatrix(v, m) == RMul(v, m.s)
VARIABLES
    \* inputs of the evaluation (the data block, the mesh and the matrix)
    numVerts,               \* number of vertices of the input mesh
    connected,              \* getConnectedVertices: index -> set of indices
    normals,                \* getVertexNormals: index -> local normal
    points,                 \* the vertex positions of the mesh (local space)
    local_to_world_matrix,  \* [s: scale, t: translation]
    singular_inverse,       \* what MMatrix.inverse() does with a singular matrix
    collider,               \* [bound, surface: index -> set of world points]
    envelope_value,
    bulge,                  \* bulgeMultiplier attribute
    levels_attr,            \* levels attribute
    bulgeshape,             \* the ramp: None (sampling raises) or <<v0, v1>>
    input_points,           \* the vertex positions before the evaluation
    \* locals of deform and deformNeighbours
    pc,
    orig_points,
    vertex_index,
    intersecting_indices,
    neighbouring_indices,
    inside_mesh,
    past_indices,
    indices,
    todo,
    levels,
    max_levels,
    multiplier,
    bulge_amount,
    \* history of the evaluation
    contact_point,          \* index -> contact point found by the contact pass
    contact_points,         \* the positions left by the contact pass
    offsets,                \* index -> offset_vector added by deformNeighbours
    nearest,                \* index -> nearest hit along the normal (bulge)
    layers,                 \* the `indices` of each deformNeighbours call
    amounts,                \* the bulge_amount of each deformNeighbours call
    samples                 \* the ramp sample of each deformNeighbours call

inputs == <<numVerts, connected, normals, local_to_world_matrix,
            singular_inverse, collider,
            envelope_value, bulge, levels_attr, bulgeshape, input_points>>
contactLocals == <<vertex_index, intersecting_indices, neighbouring_indices,
                   inside_mesh, contact_point>>
bulgeLocals == <<past_indices, indices, todo, levels, max_levels, multiplier,
                 bulge_amount>>
history == <<offsets, nearest, layers, amounts, samples>>
vars == <<inputs, points, pc, orig_points, contactLocals, contact_points,
          bulgeLocals, history>>

Verts == 0 .. (numVerts - 1)

\* MMatrix.inverse(). The inverse of a singular matrix is not defined: the
\* call either raises or returns some matrix, as singular_inverse says.
Inverse(m) ==
    IF m.s = Zero THEN [s |-> singular_inverse.s, t |-> singular_inverse.t]
    ELSE [s |-> RDiv(Int2R(1), m.s), t |-> RNeg(RDiv(m.t, m.s))]

\* MMatrix.inverse() raises
InverseFails(m) == m.s = Zero /\ singular_inverse.raises

\* ---------------------------------------------------------- the collider
\* the surface points of vertex i's line that a ray from `point` in
\* direction `dir` meets
RayHits(i, point, dir) ==
    {c \in collider.surface[i] : RLt(Zero, RMul(RSub(c, point), dir))}

RECURSIVE Ordered(_, _)
\* MFnMesh.allIntersections with sortHits: the hits ordered by distance
Ordered(S, point) ==
    IF S = {} THEN <<>>
    ELSE LET c == CHOOSE x \in S :
                    \A y \in S : RLe(Length(RSub(x, point)), Length(RSub(y, point)))
         IN  <<c>> \o Ordered(S \ {c}, point)

allIntersections(i, point, dir) == Ordered(RayHits(i, point, dir), point)

\* MFnMesh.getClosestPointAndNormal: the outward normal of the collider at the
\* surface point closest to `point` (the zero vector when there is none)
closestNormal(i, point) ==
    IF collider.surface[i] = {} THEN Zero
    ELSE LET c == CHOOSE x \in collider.surface[i] :
                    \A y \in collider.surface[i] :
                        RLe(Length(RSub(x, point)), Length(RSub(y, point)))
             below == Cardinality({y \in collider.surface[i] : RLt(y, c)})
         IN  IF below % 2 = 0 THEN Int2R(-1) ELSE Int2R(1)

\* MFloatVector.angle is pi exactly when the vectors point in opposite directions
AngleIsPi(a, b) == RLt(RMul(a, b), Zero)

\* faulty variant: the first hit is returned whatever the number of hits
getIntersection_AnyHit(i, point, normal) ==
    LET intersection_normal == closestNormal(i, point)
        average_normal ==
            IF AngleIsPi(normal, intersection_normal) THEN normal
            ELSE RAdd(normal, intersection_normal)
        intersections == allIntersections(i, point, average_normal)
    IN  IF Len(intersections) > 0 THEN intersections[1] ELSE None

\* lines 428-474: the inside test
getIntersection(i, point, normal) ==
    LET intersection_normal == closestNormal(i, point)
        average_normal ==
            IF AngleIsPi(normal, intersection_normal) THEN normal
            ELSE RAdd(normal, intersection_normal)
        intersections == allIntersections(i, point, average_normal)
    IN  IF Len(intersections) % 2 = 1 THEN intersections[1] ELSE None

\* ------------------------------------------------------------ the ramp
\* postConstructor: two entries, at positions 0 and 1, both of value 0
DefaultRamp == <<Zero, Zero>>

\* MRampAttribute.getValueAtPosition between the two entries
getValueAtPosition(ramp, position) ==
    RAdd(ramp[1], RMul(RSub(ramp[2], ramp[1]), position))

\* lines 332-346: the sample, or None when sampling raises
RampSample(ramp, lv, maxlv) ==
    IF ramp = None THEN None
    ELSE getValueAtPosition(ramp, Rat(lv, maxlv))

\* faulty variant: the fallback divides as integers
BulgeAmount_IntDiv(sample, lv, maxlv) ==
    IF sample = None \/ sample = Zero THEN Int2R((lv * lv) \div maxlv) ELSE sample

\* lines 348-351
BulgeAmount(sample, lv, maxlv) ==
    IF sample = None \/ sample = Zero THEN Rat(lv * lv, maxlv) ELSE sample

\* ------------------------------------------------------------- deform
\* faulty variant: the missing collider is not noticed
ColliderAvailable_Always(c) == TRUE

\* lines 174-180: asMesh / MFnMesh raise when no mesh is connected
ColliderAvailable(c) == c.bound

\* faulty variant: the envelope is not applied to the dent
ContactNewPoint_NoEnvelope(point, ws_point, intersecting_point, envelope, matrix) ==
    LET diff == RSub(intersecting_point, ws_point)
    IN  RAdd(point, VectorTimesMatrix(diff, Inverse(matrix)))

\* faulty variant: the world-space vector is added without the inverse transform
ContactNewPoint_NoInverse(point, ws_point, intersecting_point, envelope, matrix) ==
    LET diff == RSub(intersecting_point, ws_point)
    IN  RAdd(point, RMul(diff, envelope))

\* lines 229-235: the point a vertex in contact is moved to (local space)
ContactNewPoint(point, ws_point, intersecting_point, envelope, matrix) ==
    LET diff == RSub(intersecting_point, ws_point)
    IN  RAdd(point, VectorTimesMatrix(RMul(diff, envelope), Inverse(matrix)))

\* faulty variant: the levels attribute is not tested
RunsBulge_AnyLevels(lv, bl) == bl # Zero

\* line 261: `elif levels and bulge`
RunsBulge(lv, bl) == lv # 0 /\ bl # Zero

\* faulty variant: the past indices are not taken out
RemainingIndices_All(neighbours, past) == neighbours

\* lines 270-272 and 411-413: the indices not yet dealt with
RemainingIndices(neighbours, past) == neighbours \ past

\* line 383
OffsetVector(normal, mult, amount) == RMul(RMul(normal, mult), amount)

\* lines 385-390: the offset, capped by the nearest intersection
CappedOffset(offset_vector, ws_point, intersecting_point, matrix) ==
    IF intersecting_point = None THEN offset_vector
    ELSE LET diff == RSub(intersecting_point, ws_point)
         IN  IF RLt(Length(diff), Length(offset_vector))
             THEN VectorTimesMatrix(diff, Inverse(matrix))
             ELSE offset_vector

\* faulty variant: the level is tested before it is decremented
Recurses_OffByOne(lv) == lv > 0

\* lines 405-406: the level left after a layer, and whether to recurse
Recurses(lv) == lv - 1 > 0

\* lines 204-223: the contact point of vertex v, None without contact
ContactPointOf(v) ==
    LET ws_point == PointTimesMatrix(points[v], local_to_world_matrix)
        ws_normal == VectorTimesMatrix(normals[v], local_to_world_matrix)
    IN  getIntersection(v, ws_point, RNeg(ws_normal))

\* lines 361-380: the nearest hit along the normal of vertex i, or None
NearestHitOf(i) ==
    LET ws_point == PointTimesMatrix(points[i], local_to_world_matrix)
        ws_normal == VectorTimesMatrix(normals[i], local_to_world_matrix)
        intersections == allIntersections(i, ws_point, ws_normal)
    IN  IF Len(intersections) > 0 THEN intersections[1] ELSE None

\* lines 387-389: the cap applies to vertex i
CapApplies(i) ==
    /\ NearestHitOf(i) # None
    /\ RLt(Length(RSub(NearestHitOf(i),
                       PointTimesMatrix(points[i], local_to_world_matrix))),
           Length(OffsetVector(normals[i], multiplier, bulge_amount)))

\* lines 235 and 390: the places where inverse() is called
InverseCalled ==
    \/ pc = "contact" /\ vertex_index < numVerts
            /\ ContactPointOf(vertex_index) # None
    \/ pc = "bulge" /\ \E i \in todo : CapApplies(i)

\* lines 235 and 390: inverse() raises and the exception leaves deform
InverseRaises ==
    /\ InverseFails(local_to_world_matrix)
    /\ InverseCalled
    /\ pc' = "failed"
    /\ UNCHANGED <<inputs, points, orig_points, contactLocals, contact_points,
                   bulgeLocals, history>>

\* lines 174-180: no collider mesh, deform returns at once
DeformNoCollider ==
    /\ pc = "start"
    /\ ~ColliderAvailable(collider)
    /\ pc' = "done"
    /\ UNCHANGED <<inputs, points, orig_points, contactLocals, contact_points,
                   bulgeLocals, history>>

\* lines 163-200: read the inputs, keep the original points
DeformStart ==
    /\ pc = "start"
    /\ ColliderAvailable(collider)
    /\ orig_points' = points
    /\ vertex_index' = 0
    /\ intersecting_indices' = {}
    /\ neighbouring_indices' = {}
    /\ inside_mesh' = TRUE
    /\ pc' = "contact"
    /\ UNCHANGED <<inputs, points, contact_point, contact_points, bulgeLocals,
                   history>>

\* lines 209-251: the body of the loop, for vertex i
ContactStep(i) ==
    LET normal == normals[i]
        point == points[i]
        ws_point == PointTimesMatrix(point, local_to_world_matrix)
        ws_normal == VectorTimesMatrix(normal, local_to_world_matrix)
        ws_fl_normal == RNeg(ws_normal)
        intersecting_point == getIntersection(i, ws_point, ws_fl_normal)
    IN  IF intersecting_point # None
        THEN /\ points' = [points EXCEPT ![i] =
                     ContactNewPoint(point, ws_point, intersecting_point,
                                     envelope_value, local_to_world_matrix)]
             /\ neighbouring_indices' = neighbouring_indices \cup connected[i]
             /\ intersecting_indices' = intersecting_indices \cup {i}
             /\ contact_point' = [contact_point EXCEPT ![i] = intersecting_point]
             /\ UNCHANGED inside_mesh
        ELSE /\ inside_mesh' = FALSE
             /\ UNCHANGED <<points, neighbouring_indices, intersecting_indices,
                            contact_point>>

\* lines 202-254: one turn of the loop over the vertices
ContactVertex ==
    /\ pc = "contact"
    /\ vertex_index < numVerts
    /\ ~(InverseFails(local_to_world_matrix) /\ InverseCalled)
    /\ ContactStep(vertex_index)
    /\ vertex_index' = vertex_index + 1
    /\ UNCHANGED <<inputs, pc, orig_points, contact_points, bulgeLocals, history>>

\* faulty variant: the dented points are kept
RestoreOriginal_Keep ==
    /\ pc = "contact"
    /\ vertex_index = numVerts
    /\ inside_mesh
    /\ contact_points' = points
    /\ pc' = "done"
    /\ UNCHANGED <<inputs, points, orig_points, contactLocals, bulgeLocals,
                   history>>

\* lines 259-260: every vertex was inside the collider
RestoreOriginal ==
    /\ pc = "contact"
    /\ vertex_index = numVerts
    /\ inside_mesh
    /\ contact_points' = points
    /\ points' = orig_points
    /\ pc' = "done"
    /\ UNCHANGED <<inputs, orig_points, contactLocals, bulgeLocals, history>>

\* lines 261-288: the first call of deformNeighbours
StartBulge ==
    /\ pc = "contact"
    /\ vertex_index = numVerts
    /\ ~inside_mesh
    /\ RunsBulge(levels_attr, bulge)
    /\ contact_points' = points
    /\ past_indices' = intersecting_indices
    /\ indices' = RemainingIndices(neighbouring_indices, intersecting_indices)
    /\ multiplier' = RMul(bulge, envelope_value)
    /\ levels' = levels_attr
    /\ max_levels' = levels_attr
    /\ pc' = "layer"
    /\ UNCHANGED <<inputs, points, orig_points, contactLocals, todo,
                   bulge_amount, history>>

\* lines 259-261: neither branch is taken
SkipBulge ==
    /\ pc = "contact"
    /\ vertex_index = numVerts
    /\ ~inside_mesh
    /\ ~RunsBulge(levels_attr, bulge)
    /\ contact_points' = points
    /\ pc' = "done"
    /\ UNCHANGED <<inputs, points, orig_points, contactLocals, bulgeLocals,
                   history>>

\* ---------------------------------------------------- deformNeighbours
\* lines 332-354: entry of a call, the bulge amount of this layer
LayerBegin ==
    /\ pc = "layer"
    /\ LET sample == RampSample(bulgeshape, levels, max_levels)
       IN  /\ bulge_amount' = BulgeAmount(sample, levels, max_levels)
           /\ samples' = Append(samples, sample)
    /\ amounts' = Append(amounts, bulge_amount')
    /\ layers' = Append(layers, indices)
    /\ todo' = indices
    /\ neighbouring_indices' = {}
    /\ pc' = "bulge"
    /\ UNCHANGED <<inputs, points, orig_points, vertex_index,
                   intersecting_indices, inside_mesh, contact_point,
                   contact_points, past_indices, indices, levels, max_levels,
                   multiplier, offsets, nearest>>

\* faulty variant: the connected vertices of the last vertex replace the list
BulgeVertex_Overwrite(i) ==
    /\ pc = "bulge"
    /\ i \in todo
    /\ ~(InverseFails(local_to_world_matrix) /\ CapApplies(i))
    /\ LET point == points[i]
           ws_point == PointTimesMatrix(point, local_to_world_matrix)
           normal == normals[i]
           ws_normal == VectorTimesMatrix(normal, local_to_world_matrix)
           intersections == allIntersections(i, ws_point, ws_normal)
           intersecting_point ==
               IF Len(intersections) > 0 THEN intersections[1] ELSE None
           offset_vector ==
               CappedOffset(OffsetVector(normal, multiplier, bulge_amount),
                            ws_point, intersecting_point, local_to_world_matrix)
       IN  /\ points' = [points EXCEPT ![i] = RAdd(point, offset_vector)]
           /\ offsets' = [offsets EXCEPT ![i] = offset_vector]
           /\ nearest' = [nearest EXCEPT ![i] = intersecting_point]
    /\ neighbouring_indices' = connected[i]
    /\ todo' = todo \ {i}
    /\ UNCHANGED <<inputs, pc, orig_points, vertex_index, intersecting_indices,
                   inside_mesh, contact_point, contact_points, past_indices,
                   indices, levels, max_levels, multiplier, bulge_amount,
                   layers, amounts, samples>>

\* lines 355-402: one turn of the loop over the indices of the layer
BulgeVertex(i) ==
    /\ pc = "bulge"
    /\ i \in todo
    /\ ~(InverseFails(local_to_world_matrix) /\ CapApplies(i))
    /\ LET point == points[i]
           ws_point == PointTimesMatrix(point, local_to_world_matrix)
           normal == normals[i]
           ws_normal == VectorTimesMatrix(normal, local_to_world_matrix)
           intersections == allIntersections(i, ws_point, ws_normal)
           intersecting_point ==
               IF Len(intersections) > 0 THEN intersections[1] ELSE None
           offset_vector ==
               CappedOffset(OffsetVector(normal, multiplier, bulge_amount),
                            ws_point, intersecting_point, local_to_world_matrix)
       IN  /\ points' = [points EXCEPT ![i] = RAdd(point, offset_vector)]
           /\ offsets' = [offsets EXCEPT ![i] = offset_vector]
           /\ nearest' = [nearest EXCEPT ![i] = intersecting_point]
    /\ neighbouring_indices' = neighbouring_indices \cup connected[i]
    /\ todo' = todo \ {i}
    /\ UNCHANGED <<inputs, pc, orig_points, vertex_index, intersecting_indices,
                   inside_mesh, contact_point, contact_points, past_indices,
                   indices, levels, max_levels, multiplier, bulge_amount,
                   layers, amounts, samples>>

\* faulty variant: the layer is not added to the past indices
Recurse_NoMark ==
    /\ pc = "bulge"
    /\ todo = {}
    /\ Recurses(levels)
    /\ levels' = levels - 1
    /\ indices' = RemainingIndices(neighbouring_indices, past_indices)
    /\ pc' = "layer"
    /\ UNCHANGED <<inputs, points, orig_points, contactLocals, contact_points,
                   past_indices, todo, max_levels, multiplier, bulge_amount,
                   history>>

\* lines 404-425: the layer is done and another level is left
Recurse ==
    /\ pc = "bulge"
    /\ todo = {}
    /\ Recurses(levels)
    /\ levels' = levels - 1
    /\ past_indices' = past_indices \cup indices
    /\ indices' = RemainingIndices(neighbouring_indices, past_indices')
    /\ pc' = "layer"
    /\ UNCHANGED <<inputs, points, orig_points, contactLocals, contact_points,
                   todo, max_levels, multiplier, bulge_amount, history>>

\* lines 404-406: the layer is done and no level is left
Return ==
    /\ pc = "bulge"
    /\ todo = {}
    /\ ~Recurses(levels)
    /\ levels' = levels - 1
    /\ pc' = "done"
    /\ UNCHANGED <<inputs, points, orig_points, contactLocals, contact_points,
                   past_indices, indices, todo, max_levels, multiplier,
                   bulge_amount, history>>

Next ==
    \/ DeformNoCollider
    \/ DeformStart
    \/ ContactVertex
    \/ RestoreOriginal
    \/ StartBulge
    \/ SkipBulge
    \/ LayerBegin
    \/ \E i \in Verts : BulgeVertex(i)
    \/ Recurse
    \/ Return
    \/ InverseRaises

\* The same evaluation with the loop of the contact pass taking the vertices
\* in any order: `todo` holds the vertices still to visit and vertex_index
\* counts the visited ones.
DeformStartAny ==
    /\ pc = "start"
    /\ ColliderAvailable(collider)
    /\ orig_points' = points
    /\ vertex_index' = 0
    /\ intersecting_indices' = {}
    /\ neighbouring_indices' = {}
    /\ inside_mesh' = TRUE
    /\ todo' = Verts
    /\ pc' = "contact"
    /\ UNCHANGED <<inputs, points, contact_point, contact_points, past_indices,
                   indices, levels, max_levels, multiplier, bulge_amount,
                   history>>

\* lines 202-254: one turn of the loop, for any vertex not yet visited
ContactAny(i) ==
    /\ pc = "contact"
    /\ i \in todo
    /\ ~InverseFails(local_to_world_matrix)
    /\ ContactStep(i)
    /\ todo' = todo \ {i}
    /\ vertex_index' = vertex_index + 1
    /\ UNCHANGED <<inputs, pc, orig_points, contact_points, past_indices,
                   indices, levels, max_levels, multiplier, bulge_amount,
                   history>>

NextAnyOrder ==
    \/ DeformNoCollider
    \/ DeformStartAny
    \/ \E i \in Verts : ContactAny(i)
    \/ RestoreOriginal
    \/ StartBulge
    \/ SkipBulge
    \/ LayerBegin
    \/ \E i \in Verts : BulgeVertex(i)
    \/ Recurse
    \/ Return

\* ---------------------------------------------------------------- inputs
\* the direction of a vector on the axis
Sign(v) == IF RLt(v, Zero) THEN Int2R(-1) ELSE IF RLt(Zero, v) THEN Int2R(1) ELSE Zero

\* every mesh topology over n vertices: the symmetric, irreflexive relations
Graphs(n) ==
    LET V == 0 .. (n - 1)
        Edges == {e \in V \X V : e[1] < e[2]}
    IN  {[i \in V |-> {j \in V : <<i, j>> \in E \/ <<j, i>> \in E}] :
            E \in SUBSET Edges}

\* n vertices in a row, each connected to its immediate neighbours only
Chain(n) ==
    [i \in 0 .. (n - 1) |-> {j \in 0 .. (n - 1) : j = i - 1 \/ j = i + 1}]

\* n vertices in a ring
Ring(n) ==
    [i \in 0 .. (n - 1) |-> {j \in 0 .. (n - 1) :
        j # i /\ (j = (i + 1) % n \/ i = (j + 1) % n)}]

MeshPoints(n) == [i \in 0 .. (n - 1) |-> Int2R(i)]
MeshNormals(n) == [i \in 0 .. (n - 1) |-> IF i % 2 = 0 THEN Int2R(1) ELSE Int2R(-1)]

\* A collider given by the vertices it encloses: the surface lies `depth`
\* behind an enclosed vertex (against its normal); with `behind`, the
\* collider lies wholly behind the other vertices (two crossings); with
\* ahead > 0 it also has a face `ahead` in front of every vertex.
Surface(n, matrix, inside, depth, behind, ahead) ==
    [i \in 0 .. (n - 1) |->
        LET w == PointTimesMatrix(MeshPoints(n)[i], matrix)
            d == Sign(VectorTimesMatrix(MeshNormals(n)[i], matrix))
            at(k) == RSub(w, RMul(d, Int2R(k)))
        IN  (IF i \in inside THEN {at(depth)}
             ELSE IF behind THEN {at(depth), at(depth + 1)} ELSE {})
            \cup (IF ahead > 0 THEN {at(-ahead)} ELSE {})]

Unbound(n) == [bound |-> FALSE, surface |-> [i \in 0 .. (n - 1) |-> {}]]
Bound(surf) == [bound |-> TRUE, surface |-> surf]

Envelopes == {Rat(k, EnvSteps) : k \in 0 .. EnvSteps}
Bulges == {Int2R(k) : k \in (-MaxBulge) .. MaxBulge}
Ramps == {None, DefaultRamp, <<Zero, Int2R(1)>>}
Identity == [s |-> Int2R(1), t |-> Zero]
Matrices == {[s |-> Int2R(k), t |-> Int2R(t)] : k \in 1 .. MaxScale, t \in 0 .. 1}

\* what inverse() may do with a singular matrix: raise, or return a matrix
Raises == [raises |-> TRUE, s |-> Zero, t |-> Zero]
SingularInverses ==
    {Raises, [raises |-> FALSE, s |-> Zero, t |-> Zero],
     [raises |-> FALSE, s |-> Int2R(1), t |-> Zero]}

\* the state when deform is entered with the given inputs
InitWithInverse(n, adj, coll, matrix, env, bl, lv, ramp, inv) ==
    /\ singular_inverse = inv
    /\ numVerts = n
    /\ connected = adj
    /\ normals = MeshNormals(n)
    /\ points = MeshPoints(n)
    /\ input_points = MeshPoints(n)
    /\ local_to_world_matrix = matrix
    /\ collider = coll
    /\ envelope_value = env
    /\ bulge = bl
    /\ levels_attr = lv
    /\ bulgeshape = ramp
    /\ pc = "start"
    /\ orig_points = [i \in 0 .. (n - 1) |-> None]
    /\ vertex_index = 0
    /\ intersecting_indices = {}
    /\ neighbouring_indices = {}
    /\ inside_mesh = TRUE
    /\ past_indices = {}
    /\ indices = {}
    /\ todo = {}
    /\ levels = 0
    /\ max_levels = 0
    /\ multiplier = Zero
    /\ bulge_amount = None
    /\ contact_point = [i \in 0 .. (n - 1) |-> None]
    /\ contact_points = [i \in 0 .. (n - 1) |-> None]
    /\ offsets = [i \in 0 .. (n - 1) |-> None]
    /\ nearest = [i \in 0 .. (n - 1) |-> None]
    /\ layers = <<>>
    /\ amounts = <<>>
    /\ samples = <<>>

\* the same, for a matrix whose inverse exists
InitWith(n, adj, coll, matrix, env, bl, lv, ramp) ==
    InitWithInverse(n, adj, coll, matrix, env, bl, lv, ramp, Raises)

\* every topology and every set of enclosed vertices, with or without a
\* collider, for every levels and bulgeMultiplier, at envelope 0 and 1
InitTopology ==
    \E n \in 0 .. MaxVerts :
    \E adj \in Graphs(n) :
    \E coll \in {Unbound(n)} \cup
                {Bound(Surface(n, Identity, inside, 1, FALSE, 0)) :
                    inside \in SUBSET (0 .. (n - 1))} :
    \E lv \in (-1) .. MaxLevels :
    \E bl \in Bulges :
    \E env \in {Zero, Int2R(1)} :
        InitWith(n, adj, coll, Identity, env, bl, lv, None)

\* two connected vertices: every transform, envelope and contact depth
InitContact ==
    \E inside \in SUBSET {0, 1} :
    \E matrix \in Matrices :
    \E depth \in 1 .. MaxDepth :
    \E behind \in BOOLEAN :
    \E env \in Envelopes :
        InitWith(2, Chain(2), Bound(Surface(2, matrix, inside, depth, behind, 0)),
                 matrix, env, Zero, 0, DefaultRamp)

\* a row of three vertices, the first one enclosed: every transform, ramp,
\* multiplier and levels, with a collider face in front of the vertices
InitBulge ==
    \E matrix \in Matrices :
    \E ahead \in 0 .. MaxDepth :
    \E env \in Envelopes :
    \E bl \in Bulges :
    \E lv \in 0 .. MaxLevels :
    \E ramp \in Ramps :
        InitWith(3, Chain(3), Bound(Surface(3, matrix, {0}, 1, FALSE, ahead)),
                 matrix, env, bl, lv, ramp)

\* a row of ChainLen vertices or a ring of them, the middle vertex enclosed
InitRow ==
    \E adj \in {Chain(ChainLen), Ring(ChainLen)} :
    \E env \in Envelopes :
    \E bl \in Bulges :
    \E lv \in 0 .. MaxLevels :
        InitWith(ChainLen, adj,
                 Bound(Surface(ChainLen, Identity, {ChainLen \div 2}, 1, FALSE, 0)),
                 Identity, env, bl, lv, None)

\* A collider around the point every vertex is mapped to by a singular
\* matrix: its surface lies one unit below that point on the lines of the
\* enclosed vertices.
SingularSurface(n, matrix, inside) ==
    [i \in 0 .. (n - 1) |->
        IF i \in inside THEN {RSub(matrix.t, Int2R(1))} ELSE {}]

\* two connected vertices under a singular (scale 0) matrix
InitSingular ==
    \E inside \in SUBSET {0, 1} :
    \E inv \in SingularInverses :
    \E env \in Envelopes :
    \E bl \in Bulges :
    \E lv \in 0 .. 1 :
        LET matrix == [s |-> Zero, t |-> Int2R(1)]
        IN  InitWithInverse(2, Chain(2),
                            Bound(SingularSurface(2, matrix, inside)),
                            matrix, env, bl, lv, None, inv)

Init == InitTopology \/ InitContact \/ InitBulge \/ InitRow \/ InitSingular

Spec == Init /\ [][Next]_vars

\* every topology and every set of enclosed vertices, with or without a
\* collider, for every levels >= 0
InitTopologyAnyOrder ==
    \E n \in 0 .. MaxVerts :
    \E adj \in Graphs(n) :
    \E coll \in {Unbound(n)} \cup
                {Bound(Surface(n, Identity, inside, 1, FALSE, 0)) :
                    inside \in SUBSET (0 .. (n - 1))} :
    \E lv \in 0 .. MaxLevels :
        InitWith(n, adj, coll, Identity, Rat(1, EnvSteps), Int2R(1), lv, None)

\* inputs with an invertible matrix
InitInvertible == InitTopologyAnyOrder \/ InitContact \/ InitBulge \/ InitRow

SpecAnyOrder == InitInvertible /\ [][NextAnyOrder]_vars

\* ================================================================ claims
Unset(n) == [i \in 0 .. (n - 1) |-> None]
WorldPoint(p) == PointTimesMatrix(p, local_to_world_matrix)
WorldVector(v) == VectorTimesMatrix(v, local_to_world_matrix)
\* deformNeighbours has been called
BulgeRan == pc \in {"layer", "bulge"} \/ layers # <<>>
StrictlyBetween(x, a, b) == (RLt(a, x) /\ RLt(x, b)) \/ (RLt(b, x) /\ RLt(x, a))
Between(x, a, b) == (RLe(a, x) /\ RLe(x, b)) \/ (RLe(b, x) /\ RLe(x, a))

\* C1: without a collider mesh deform returns at once: the contact pass and
\* the bulge propagation do not run and every vertex keeps its
\* pre-evaluation position; the evaluation ends normally.
C1_NoColliderNoOp ==
    ~collider.bound =>
        /\ pc \in {"start", "done"}
        /\ points = input_points
        /\ vertex_index = 0
        /\ intersecting_indices = {}
        /\ contact_point = Unset(numVerts)
        /\ ~BulgeRan
        /\ offsets = Unset(numVerts)

C1_Witness ==
    /\ ~collider.bound
    /\ pc = "done"
    /\ numVerts > 0
    /\ levels_attr > 0
    /\ bulge # Zero

\* C2: when every vertex registered a contact (also for a mesh without
\* vertices), the positions after deform are the pre-evaluation positions,
\* whatever envelope, levels and bulgeMultiplier are, and deformNeighbours
\* is not called.
C2_FullEnclosureReverts ==
    (collider.bound /\ pc \in {"layer", "bulge", "done"}
        /\ intersecting_indices = Verts) =>
        /\ pc = "done"
        /\ points = input_points
        /\ ~BulgeRan
        /\ offsets = Unset(numVerts)

C2_Witness ==
    /\ collider.bound
    /\ pc = "done"
    /\ numVerts > 1
    /\ intersecting_indices = Verts
    /\ contact_points # input_points
    /\ levels_attr > 0
    /\ bulge # Zero
    /\ envelope_value = Int2R(1)

\* C3: with envelope = 0 the contact pass displaces no vertex, in contact or
\* not: during and after the pass every position is the input position.
C3_ZeroEnvelopeNoDisplacement ==
    (collider.bound /\ envelope_value = Zero) =>
        /\ pc = "contact" => points = input_points
        /\ pc \in {"layer", "bulge", "done"} => contact_points = input_points

C3_Witness ==
    /\ envelope_value = Zero
    /\ pc = "contact"
    /\ vertex_index = numVerts
    /\ intersecting_indices # {}
    /\ ~inside_mesh
    /\ local_to_world_matrix.s # Int2R(1)

\* the world-space position the contact pass gave vertex i, its position
\* before the pass, and the interpolation the claim states
C4_Interpolates(i) ==
    LET pre == WorldPoint(input_points[i])
        new == WorldPoint(points[i])
    IN  new = RAdd(pre, RMul(envelope_value, RSub(contact_point[i], pre)))

\* C4 as stated: every vertex in contact ends the contact pass strictly
\* between its pre-pass position and the contact point, at fraction envelope
\* (read for an invertible matrix, where world positions tell vertices apart).
C4_Original ==
    (pc = "contact" /\ local_to_world_matrix.s # Zero) =>
        \A i \in intersecting_indices :
            /\ C4_Interpolates(i)
            /\ StrictlyBetween(WorldPoint(points[i]), WorldPoint(input_points[i]),
                               contact_point[i])

\* C4 amended: under an invertible matrix every vertex in contact ends the
\* contact pass on the segment from its pre-pass position to the contact
\* point, at fraction envelope (world space); strictly inside the segment when 0 < envelope < 1, at the
\* pre-pass position when envelope = 0 and at the contact point when
\* envelope = 1.
C4_ContactInterpolation ==
    (pc = "contact" /\ local_to_world_matrix.s # Zero) =>
        \A i \in intersecting_indices :
            LET pre == WorldPoint(input_points[i])
                new == WorldPoint(points[i])
            IN  /\ C4_Interpolates(i)
                /\ Between(new, pre, contact_point[i])
                /\ (RLt(Zero, envelope_value) /\ RLt(envelope_value, Int2R(1)))
                        => StrictlyBetween(new, pre, contact_point[i])
                /\ envelope_value = Zero => new = pre
                /\ envelope_value = Int2R(1) => new = contact_point[i]

C4_Witness ==
    /\ pc = "contact"
    /\ vertex_index = numVerts
    /\ intersecting_indices # {}
    /\ RLt(Zero, envelope_value)
    /\ RLt(envelope_value, Int2R(1))
    /\ local_to_world_matrix.s # Int2R(1)
    /\ local_to_world_matrix.t # Zero

\* C5 (clamp invariant): a vertex bulged by deformNeighbours whose ray along
\* its world-space normal hits the collider is moved, in world space, by at
\* most the distance to the nearest hit.
C5_ClampInvariant ==
    \A i \in Verts :
        (offsets[i] # None /\ nearest[i] # None) =>
            RLe(Length(WorldVector(offsets[i])),
                Length(RSub(nearest[i], WorldPoint(input_points[i]))))

\* C6: the layers of one deform call are pairwise disjoint and their sizes
\* add up to at most the number of vertices, whatever the topology.
RECURSIVE SumSizes(_)
SumSizes(ls) == IF ls = <<>> THEN 0 ELSE Cardinality(Head(ls)) + SumSizes(Tail(ls))

C6_LayersDisjoint ==
    /\ \A j, k \in 1 .. Len(layers) : j # k => layers[j] \cap layers[k] = {}
    /\ SumSizes(layers) <= numVerts

C6_Witness ==
    /\ pc = "done"
    /\ \A i \in Verts : Cardinality(connected[i]) = 2
    /\ Len(layers) >= 2
    /\ layers[1] # {}
    /\ layers[2] # {}
    /\ SumSizes(layers) + Cardinality(intersecting_indices) = numVerts

\* C7: with levels = 0 deformNeighbours is never called, whatever
\* bulgeMultiplier is, and unless the mesh is fully enclosed the final
\* positions are those the contact pass left.
C7_ZeroLevelsNoBulge ==
    (collider.bound /\ levels_attr = 0) =>
        /\ ~BulgeRan
        /\ offsets = Unset(numVerts)
        /\ (pc = "done" /\ ~inside_mesh) => points = contact_points

C7_Witness ==
    /\ collider.bound
    /\ levels_attr = 0
    /\ bulge # Zero
    /\ pc = "done"
    /\ ~inside_mesh
    /\ intersecting_indices # {}
    /\ contact_points # input_points

\* C8: when sampling the ramp is unavailable and the offset is not capped,
\* a vertex of the k-th layer is offset by
\* normal * multiplier * (levels - k + 1)^2 / levels; in a row with only the
\* middle vertex in contact, envelope = 1, levels = 2, bulgeMultiplier = 1,
\* the middle vertex is at its contact point, its two neighbours are offset
\* by 2 along their normals, the next two by 1/2, and the middle vertex gets
\* no bulge offset.
C8_FallbackLayerOffsets ==
    (bulgeshape = None /\ levels_attr > 0) =>
        /\ \A k \in 1 .. Len(layers) : \A i \in layers[k] :
                (offsets[i] # None /\ nearest[i] = None) =>
                    /\ offsets[i] =
                         RMul(RMul(normals[i], RMul(bulge, envelope_value)),
                              Rat((levels_attr - k + 1) * (levels_attr - k + 1),
                                  levels_attr))
                    /\ points[i] = RAdd(input_points[i], offsets[i])
        /\ LET m == numVerts \div 2
           IN  (/\ pc = "done"
                /\ numVerts >= 5
                /\ connected = Chain(numVerts)
                /\ intersecting_indices = {m}
                /\ envelope_value = Int2R(1)
                /\ levels_attr = 2
                /\ bulge = Int2R(1)
                /\ \A i \in Verts : nearest[i] = None) =>
                    /\ WorldPoint(points[m]) = contact_point[m]
                    /\ offsets[m] = None
                    /\ \A i \in {m - 1, m + 1} :
                            /\ offsets[i] = RMul(normals[i], Int2R(2))
                            /\ points[i] = RAdd(input_points[i], offsets[i])
                    /\ \A i \in {m - 2, m + 2} :
                            /\ offsets[i] = RMul(normals[i], Rat(1, 2))
                            /\ points[i] = RAdd(input_points[i], offsets[i])
                    /\ layers = <<{m - 1, m + 1}, {m - 2, m + 2}>>

C8_Witness ==
    /\ pc = "done"
    /\ numVerts = 5
    /\ connected = Chain(5)
    /\ bulgeshape = None
    /\ intersecting_indices = {2}
    /\ envelope_value = Int2R(1)
    /\ levels_attr = 2
    /\ bulge = Int2R(1)
    /\ layers = <<{1, 3}, {0, 4}>>
    /\ amounts = <<Int2R(2), Rat(1, 2)>>

\* C9: whenever the ramp yields a sample at levels / max_levels, the
\* bulge_amount of the layer is that sample, whatever its value (0 too); the
\* fallback levels^2 / max_levels is used only without a sample.
C9_SampleIsUsed ==
    \A k \in 1 .. Len(amounts) :
        /\ samples[k] # None => amounts[k] = samples[k]
        /\ samples[k] = None =>
                amounts[k] = Rat((levels_attr - k + 1) * (levels_attr - k + 1),
                                 levels_attr)

\* C10: after a contact pass that is not fully enclosed, deformNeighbours is
\* called if and only if levels > 0 and bulgeMultiplier # 0, for every
\* integer levels; when it is not called no vertex gets a bulge offset.
C10_BulgeRunsIffPositiveLevels ==
    (collider.bound /\ pc \in {"layer", "bulge", "done"}
        /\ ~inside_mesh) =>
        /\ BulgeRan <=> (levels_attr > 0 /\ bulge # Zero)
        /\ ~BulgeRan => offsets = Unset(numVerts)

\* C11: under a non-invertible local-to-world matrix the evaluation fails as
\* a whole and no vertex is written: every position keeps its
\* pre-evaluation value and deform never ends normally.
C11_SingularTransformFails ==
    (collider.bound /\ local_to_world_matrix.s = Zero) =>
        /\ points = input_points
        /\ pc # "done"

\* deform has returned or raised
Terminated == pc \in {"done", "failed"}

\* the steps one call of deformNeighbours takes at most: its entry, one turn
\* per vertex, its exit
CallSteps == numVerts + 2

\* the steps left, at most, from the entry of a call with `lv` levels
StepsFromLayer(lv) == (IF lv > 0 THEN lv ELSE 1) * CallSteps

\* an upper bound on the steps deform still takes
StepsLeft ==
    CASE pc = "start" -> numVerts + 2 + StepsFromLayer(levels_attr)
      [] pc = "contact" ->
            (numVerts - vertex_index) + 1 + StepsFromLayer(levels_attr)
      [] pc = "layer" -> StepsFromLayer(levels)
      [] pc = "bulge" ->
            Cardinality(todo) + 1
                + (IF levels - 1 > 0 THEN StepsFromLayer(levels - 1) ELSE 0)
      [] OTHER -> 0

\* C12: the bulge propagation terminates on every topology (every step of
\* deform takes the bound on the steps left strictly down, and the bound is a
\* natural number that is zero only once deform has returned or raised), and
\* for levels > 0 deformNeighbours is called at most `levels` times in one
\* deform call.
C12_BulgeTerminates ==
    /\ [](levels_attr > 0 => Len(layers) <= levels_attr)
    /\ [](StepsLeft >= 0 /\ (StepsLeft = 0 <=> Terminated))
    /\ [][StepsLeft' < StepsLeft]_vars

C12_Witness ==
    /\ pc = "done"
    /\ numVerts >= 3
    /\ \A i \in Verts : Cardinality(connected[i]) = 2
    /\ levels_attr >= 2
    /\ Len(layers) = levels_attr
    /\ layers[1] # {}

\* C13: a call of deformNeighbours made by the recursion follows a completed
\* layer whose vertices are all marked visited, with levels decremented and
\* still positive, and its own layer is not empty; no call follows an empty
\* layer.
C13_RecursesOnlyIntoNonEmptyLayer ==
    /\ (pc = "layer" /\ Len(layers) > 0) =>
            /\ layers[Len(layers)] \subseteq past_indices
            /\ levels = max_levels - Len(layers)
            /\ levels > 0
            /\ indices # {}
    /\ \A k \in 1 .. Len(layers) : layers[k] = {} => k = Len(layers)

\* the direction the inside test of vertex i searches in (lines 451-455)
SearchDirection(i) ==
    LET normal == RNeg(WorldVector(normals[i]))
        intersection_normal == closestNormal(i, WorldPoint(input_points[i]))
    IN  IF AngleIsPi(normal, intersection_normal) THEN normal
        ELSE RAdd(normal, intersection_normal)

\* the collider surface points the ray from vertex i meets
HitsOf(i) ==
    LET w == WorldPoint(input_points[i])
        d == SearchDirection(i)
    IN  IF collider.surface[i] = {} THEN {}
        ELSE IF RLt(Zero, d) THEN {c \in collider.surface[i] : RLt(w, c)}
        ELSE IF RLt(d, Zero) THEN {c \in collider.surface[i] : RLt(c, w)}
        ELSE {}

\* the positions as the contact pass leaves them
PassPoints == IF contact_points = Unset(numVerts) THEN points ELSE contact_points

RECURSIVE Within(_)
\* the vertices at most k edges away from an intersecting vertex
Within(k) ==
    IF k = 0 THEN intersecting_indices
    ELSE LET W == Within(k - 1)
         IN  W \cup UNION {connected[i] : i \in W}

\* the vertices whose topological distance to the intersecting set is k
AtDistance(k) == Within(k) \ Within(k - 1)

\* C15: with levels = L > 0, the k-th layer of the bulge propagation is the
\* set of vertices at topological distance k from the intersecting vertices,
\* a finished propagation has processed L layers, and no intersecting vertex
\* is given a bulge offset.
C15_LayersAreDistanceClasses ==
    /\ levels_attr > 0 =>
            /\ \A k \in 1 .. Len(layers) : layers[k] = AtDistance(k)
            /\ (pc = "done" /\ BulgeRan) => Len(layers) = levels_attr
    /\ \A i \in intersecting_indices : offsets[i] = None

C15_Witness ==
    /\ pc = "done"
    /\ Len(layers) >= 2
    /\ layers[1] # {}
    /\ layers[2] # {}
    /\ \E i \in layers[2] : offsets[i] # None /\ offsets[i] # Zero
    /\ \E i \in intersecting_indices : points[i] # input_points[i]

\* the vertices within `levels` adjacency hops of an intersecting vertex
WithinLevels == IF levels_attr > 0 THEN Within(levels_attr) ELSE intersecting_indices

\* C16: a vertex that registered no contact and is not within `levels` hops
\* of an intersecting vertex keeps its pre-evaluation position throughout
\* deform, and deform changes the position only of intersecting vertices and
\* of vertices of the bulge layers.
C16_FrameOutsideLevels ==
    \A i \in Verts :
        /\ i \notin WithinLevels => points[i] = input_points[i]
        /\ points[i] # input_points[i] =>
                \/ i \in intersecting_indices
                \/ \E k \in 1 .. Len(layers) : i \in layers[k]

\* the contact point of vertex i at its pre-evaluation position, or None
ContactOfInput(i) ==
    getIntersection(i, WorldPoint(input_points[i]), RNeg(WorldVector(normals[i])))

\* the vertices the inputs put inside the collider
ContactsOfInput == {i \in Verts : ContactOfInput(i) # None}

RECURSIVE Around(_, _)
\* the vertices at most k edges away from a vertex of S
Around(S, k) ==
    IF k <= 0 THEN S
    ELSE LET W == Around(S, k - 1)
         IN  W \cup UNION {connected[i] : i \in W}

\* the number of the bulge layer vertex i is in, 0 when it is in none
LayerOfInput(i) ==
    LET calls == IF levels_attr > 0 THEN levels_attr ELSE 1
        ks == {k \in 1 .. calls :
                i \in Around(ContactsOfInput, k) \ Around(ContactsOfInput, k - 1)}
    IN  IF RunsBulge(levels_attr, bulge) /\ ks # {} THEN CHOOSE k \in ks : TRUE
        ELSE 0

\* the offset of vertex i as a vertex of layer k, from the inputs alone
OffsetOfInput(i, k) ==
    LET lv == levels_attr - k + 1
        amount == BulgeAmount(RampSample(bulgeshape, lv, levels_attr), lv,
                              levels_attr)
        ws_point == WorldPoint(input_points[i])
        hits == allIntersections(i, ws_point, WorldVector(normals[i]))
    IN  CappedOffset(OffsetVector(normals[i], RMul(bulge, envelope_value), amount),
                     ws_point, IF Len(hits) > 0 THEN hits[1] ELSE None,
                     local_to_world_matrix)

\* the final position of vertex i as a function of the inputs alone
PositionOfInput(i) ==
    IF ~collider.bound \/ ContactsOfInput = Verts THEN input_points[i]
    ELSE IF i \in ContactsOfInput
    THEN ContactNewPoint(input_points[i], WorldPoint(input_points[i]),
                         ContactOfInput(i), envelope_value, local_to_world_matrix)
    ELSE IF LayerOfInput(i) > 0
    THEN RAdd(input_points[i], OffsetOfInput(i, LayerOfInput(i)))
    ELSE input_points[i]

====
